---- MODULE Spec2Model ----
(***************************************************************************)
(* Model of the dependency-confusion triager (src/LLM_Triager.py and       *)
(* src/Triager.py): the search adapter, the evidence collector, the        *)
(* classification client with its retry loop, and the batch loop of main.  *)
(*                                                                         *)
(* Text is modelled as sequences of one-character strings, so that the     *)
(* glob, the grep filter and the line parser are computed the way the      *)
(* tools compute them.                                                     *)
(***************************************************************************)
EXTENDS Integers, Sequences, FiniteSets, TLC

(***************************************************************************)
(* Text helpers (Python str operations used by the source).                *)
(***************************************************************************)
HasPrefix(s, p) == Len(p) <= Len(s) /\ SubSeq(s, 1, Len(p)) = p

HasSuffix(s, p) == Len(p) <= Len(s) /\ SubSeq(s, Len(s) - Len(p) + 1, Len(s)) = p

\* `sub in s`
Contains(s, sub) ==
    \E i \in 0..(Len(s) - Len(sub)) : SubSeq(s, i + 1, i + Len(sub)) = sub

UpperAlpha == <<"A","B","C","D","E","F","G","H","I","J","K","L","M",
                "N","O","P","Q","R","S","T","U","V","W","X","Y","Z">>
LowerAlpha == <<"a","b","c","d","e","f","g","h","i","j","k","l","m",
                "n","o","p","q","r","s","t","u","v","w","x","y","z">>

LowerChar(c) ==
    IF \E i \in DOMAIN UpperAlpha : UpperAlpha[i] = c
    THEN LowerAlpha[CHOOSE i \in DOMAIN UpperAlpha : UpperAlpha[i] = c]
    ELSE c

\* str.lower()
Lower(s) == [i \in DOMAIN s |-> LowerChar(s[i])]

IsSpace(c) == c \in {" ", "\t", "\n", "\r"}

RECURSIVE LStrip(_)
LStrip(s) == IF s # <<>> /\ IsSpace(Head(s)) THEN LStrip(Tail(s)) ELSE s

RECURSIVE RStrip(_)
RStrip(s) ==
    IF s # <<>> /\ IsSpace(s[Len(s)]) THEN RStrip(SubSeq(s, 1, Len(s) - 1)) ELSE s

\* str.strip()
Strip(s) == LStrip(RStrip(s))

DigitChars == <<"0","1","2","3","4","5","6","7","8","9">>

IsDigit(c) == \E i \in DOMAIN DigitChars : DigitChars[i] = c

DigitVal(c) == (CHOOSE i \in DOMAIN DigitChars : DigitChars[i] = c) - 1

\* str(n) for n >= 0
RECURSIVE DecStr(_)
DecStr(n) ==
    IF n < 10 THEN <<DigitChars[n + 1]>>
    ELSE DecStr(n \div 10) \o <<DigitChars[(n % 10) + 1]>>

\* int(s) for a non-empty string of digits
RECURSIVE ParseInt(_)
ParseInt(s) ==
    IF Len(s) = 1 THEN DigitVal(s[1])
    ELSE 10 * ParseInt(SubSeq(s, 1, Len(s) - 1)) + DigitVal(s[Len(s)])

\* index of the first occurrence of character c in s, 0 when there is none
FirstIndex(s, c) ==
    IF \E i \in DOMAIN s : s[i] = c
    THEN CHOOSE i \in DOMAIN s : s[i] = c /\ \A j \in 1..(i - 1) : s[j] # c
    ELSE 0

\* s.split(c): the fields between the occurrences of character c
RECURSIVE Split(_, _)
Split(s, c) ==
    LET i == FirstIndex(s, c)
    IN  IF i = 0 THEN <<s>>
        ELSE <<SubSeq(s, 1, i - 1)>> \o Split(SubSeq(s, i + 1, Len(s)), c)

\* s.replace(old, ""): every occurrence of old removed, left to right
RECURSIVE RemoveAll(_, _)
RemoveAll(s, old) ==
    IF s = <<>> THEN <<>>
    ELSE IF HasPrefix(s, old) THEN RemoveAll(SubSeq(s, Len(old) + 1, Len(s)), old)
    ELSE <<Head(s)>> \o RemoveAll(Tail(s), old)

(***************************************************************************)
(* String literals of the source.                                          *)
(***************************************************************************)
STR_potential == <<".","p","o","t","e","n","t","i","a","l">>
STR_report_csv == <<"l","l","m","_","a","n","a","l","y","s","i","s","_",
                    "r","e","p","o","r","t",".","c","s","v">>
STR_DEP == <<"D","E","P">>
STR_unknown == <<"u","n","k","n","o","w","n">>
STR_ellipsis == <<".",".",".">>

\* os.path.join(a, b) for a relative b
PathJoin(a, b) == a \o <<"/">> \o b

\* the components of a path
PathParts(p) == Split(p, "/")

\* os.path.relpath(path, start) for a path at or below start; a path elsewhere
\* is left as it is (the search prints every path with the searched root first)
RelPath(path, start) ==
    IF path = start THEN <<".">>
    ELSE IF HasPrefix(path, start \o <<"/">>)
         THEN SubSeq(path, Len(start) + 2, Len(path))
         ELSE path

(***************************************************************************)
(* The searched tree: a sequence of files in traversal order, each with    *)
(* its path (the searched root first) and its lines.                       *)
(***************************************************************************)
IsUnder(path, dir) == HasPrefix(path, dir \o <<"/">>)

\* ripgrep's -g '!llm_analysis_report.csv' -g '!.potential': a glob without a
\* slash is matched against each whole component of the path below the root
RgGlobExcluded(rel) ==
    \E k \in DOMAIN PathParts(rel) :
        PathParts(rel)[k] \in {STR_report_csv, STR_potential}

\* ripgrep skips hidden files and directories (no --hidden is passed)
RgHidden(rel) ==
    \E k \in DOMAIN PathParts(rel) :
        PathParts(rel)[k] # <<>> /\ Head(PathParts(rel)[k]) = "."

\* -F with -i: the line contains the literal pattern, case folded
LineMatches(content, pattern, case_insensitive) ==
    IF case_insensitive THEN Contains(Lower(content), Lower(pattern))
    ELSE Contains(content, pattern)

\* one output line of rg -n --no-heading or grep -rn: path:line:content
OutputLine(path, n, content) == path \o <<":">> \o DecStr(n) \o <<":">> \o content

\* the output lines of one file, from line n on
RECURSIVE FileMatches(_, _, _, _)
FileMatches(file, pattern, case_insensitive, n) ==
    IF n > Len(file.lines) THEN <<>>
    ELSE (IF LineMatches(file.lines[n], pattern, case_insensitive)
          THEN <<OutputLine(file.path, n, file.lines[n])>>
          ELSE <<>>)
         \o FileMatches(file, pattern, case_insensitive, n + 1)

\* rg -niF --no-heading --no-ignore -g ... pattern search_dir
RECURSIVE RgOutput(_, _, _, _)
RgOutput(files, pattern, search_dir, case_insensitive) ==
    IF files = <<>> THEN <<>>
    ELSE LET f == Head(files)
             rel == RelPath(f.path, search_dir)
             searched == IsUnder(f.path, search_dir)
                         /\ ~RgHidden(rel) /\ ~RgGlobExcluded(rel)
         IN  (IF searched THEN FileMatches(f, pattern, case_insensitive, 1) ELSE <<>>)
             \o RgOutput(Tail(files), pattern, search_dir, case_insensitive)

\* grep -rniF "pattern" "search_dir": every file below the root, hidden or not
RECURSIVE GrepOutput(_, _, _, _)
GrepOutput(files, pattern, search_dir, case_insensitive) ==
    IF files = <<>> THEN <<>>
    ELSE (IF IsUnder(Head(files).path, search_dir)
          THEN FileMatches(Head(files), pattern, case_insensitive, 1)
          ELSE <<>>)
         \o GrepOutput(Tail(files), pattern, search_dir, case_insensitive)

\* an extended regular expression without operators but the dot: "ANY" stands
\* for the dot, every other element for itself
RegexMatchAt(s, i, pat) ==
    /\ i + Len(pat) - 1 <= Len(s)
    /\ \A k \in DOMAIN pat : pat[k] = "ANY" \/ s[i + k - 1] = pat[k]

RegexFind(s, pat) == \E i \in 1..Len(s) : RegexMatchAt(s, i, pat)

\* the two alternatives of "(llm_analysis_report.csv|\.potential)"
GrepVAlternatives ==
    { SubSeq(STR_report_csv, 1, 19) \o <<"ANY">> \o SubSeq(STR_report_csv, 21, 23),
      STR_potential }

\* | grep -vE "(llm_analysis_report.csv|\.potential)": drops every output line
\* in which the expression is found, in the path or in the content
GrepVKeeps(line) == \A pat \in GrepVAlternatives : ~RegexFind(line, pat)

\* stdout of the command: every line ended by a newline
RECURSIVE JoinLines(_)
JoinLines(ls) == IF ls = <<>> THEN <<>> ELSE Head(ls) \o <<"\n">> \o JoinLines(Tail(ls))

\* the lines printed by the backend in use
BackendLines(files, pattern, search_dir, case_insensitive, use_ripgrep) ==
    IF use_ripgrep
    THEN RgOutput(files, pattern, search_dir, case_insensitive)
    ELSE SelectSeq(GrepOutput(files, pattern, search_dir, case_insensitive), GrepVKeeps)

\* run_search(pattern, search_dir, line_numbers=True, case_insensitive,
\* fixed_string=True) when the command runs to its end: result.stdout.strip()
run_search(files, pattern, search_dir, case_insensitive, use_ripgrep) ==
    Strip(JoinLines(BackendLines(files, pattern, search_dir, case_insensitive, use_ripgrep)))

(***************************************************************************)
(* find_all_context: parsing, trimming, truncation and the cap.            *)
(***************************************************************************)
MaxContextLines == 20
MaxContentLen == 300

\* re.match(r'([^:]+):(\d+):(.*)', line)
ParseLine(line) ==
    LET i == FirstIndex(line, ":")
        rest == SubSeq(line, i + 1, Len(line))
        j == FirstIndex(rest, ":")
        num == SubSeq(rest, 1, j - 1)
    IN  IF i > 1 /\ j > 1 /\ \A k \in DOMAIN num : IsDigit(num[k])
        THEN [ok |-> TRUE, file |-> SubSeq(line, 1, i - 1), num |-> num,
              content |-> SubSeq(rest, j + 1, Len(rest))]
        ELSE [ok |-> FALSE, file |-> <<>>, num |-> <<>>, content |-> <<>>]

\* faulty variant: a content of exactly the limit is cut as well
Truncate_Inclusive(content) ==
    IF Len(content) >= MaxContentLen
    THEN SubSeq(content, 1, MaxContentLen) \o STR_ellipsis
    ELSE content

\* content[:300] + "..." when len(content) > 300
Truncate(content) ==
    IF Len(content) > MaxContentLen
    THEN SubSeq(content, 1, MaxContentLen) \o STR_ellipsis
    ELSE content

\* the snippet appended for a line the parser accepts
Snippet(m, search_dir) ==
    [file |-> RelPath(m.file, search_dir),
     line |-> ParseInt(m.num),
     content |-> Truncate(Strip(m.content))]

\* the loop body over lines[:20]
RECURSIVE SnippetsOf(_, _)
SnippetsOf(lines, search_dir) ==
    IF lines = <<>> THEN <<>>
    ELSE (IF Strip(Head(lines)) = <<>> \/ ~ParseLine(Head(lines)).ok
          THEN <<>>
          ELSE <<Snippet(ParseLine(Head(lines)), search_dir)>>)
         \o SnippetsOf(Tail(lines), search_dir)

\* lines[:n]
Take(s, n) == SubSeq(s, 1, IF Len(s) < n THEN Len(s) ELSE n)

\* find_all_context(package_name, search_dir) on the stdout of run_search
find_all_context(search_stdout, search_dir) ==
    IF search_stdout = <<>> THEN <<>>
    ELSE SnippetsOf(Take(Split(Strip(search_stdout), "\n"), MaxContextLines), search_dir)

(***************************************************************************)
(* Reading the candidate lists (main, lines 325-357).                      *)
(***************************************************************************)
IsLetter(c) ==
    \E i \in DOMAIN UpperAlpha : UpperAlpha[i] = c \/ LowerAlpha[i] = c

\* the rest of s after the first letter (the final byte of a colour sequence)
RECURSIVE AfterFinalByte(_)
AfterFinalByte(s) ==
    IF s = <<>> THEN <<>>
    ELSE IF IsLetter(Head(s)) THEN Tail(s) ELSE AfterFinalByte(Tail(s))

\* strip_ansi_codes: terminal colour sequences ESC [ ... letter removed; the
\* escape character is the element "ESC"
RECURSIVE strip_ansi_codes(_)
strip_ansi_codes(s) ==
    IF s = <<>> THEN <<>>
    ELSE IF Head(s) = "ESC" /\ Len(s) >= 2 /\ s[2] = "["
         THEN strip_ansi_codes(AfterFinalByte(SubSeq(s, 3, Len(s))))
         ELSE <<Head(s)>> \o strip_ansi_codes(Tail(s))

\* [strip_ansi_codes(line.strip()) for line in content.splitlines() if line.strip()]
RECURSIVE PackageNames(_)
PackageNames(lines) ==
    IF lines = <<>> THEN <<>>
    ELSE (IF Strip(Head(lines)) # <<>>
          THEN <<strip_ansi_codes(Strip(Head(lines)))>>
          ELSE <<>>)
         \o PackageNames(Tail(lines))

\* filename.replace(".potential", "").split('-')[-1], "unknown" when empty
PackageType(filename) ==
    LET parts == Split(RemoveAll(filename, STR_potential), "-")
        last == parts[Len(parts)]
    IN  IF last = <<>> THEN STR_unknown ELSE last

\* [f for f in os.listdir(dep_dir) if f.endswith(".potential")]
RECURSIVE ListPotential(_, _)
ListPotential(files, dep_dir) ==
    IF files = <<>> THEN <<>>
    ELSE LET rel == RelPath(Head(files).path, dep_dir)
         IN  (IF IsUnder(Head(files).path, dep_dir) /\ FirstIndex(rel, "/") = 0
                 /\ HasSuffix(rel, STR_potential)
              THEN <<rel>> ELSE <<>>)
             \o ListPotential(Tail(files), dep_dir)

\* the lines of the file at path (open(path).read().splitlines())
FileLines(files, path) ==
    LET k == CHOOSE k \in DOMAIN files : files[k].path = path IN files[k].lines

(***************************************************************************)
(* The run's surroundings: the searched directory and what may lie in it.  *)
(***************************************************************************)
\* most candidates in one run
MaxCands == 3

source_dir == <<"t">>

NpmFile == <<"a","-","n","p","m",".","p","o","t","e","n","t","i","a","l">>
PipFile == <<"p","i","p",".","p","o","t","e","n","t","i","a","l">>

\* lines the candidate lists are cut from: a coloured name and a padded one
NpmPool == << <<"l","p">>,
              <<"ESC","[","1",";","3","1","m","w","s","ESC","[","0","m">>,
              <<"@","a","/","u","i">> >>
PipPool == << <<" ","r","q"," ">>, <<"l","p">> >>

\* a file of the candidate directory that is no candidate list
DepNotes ==
    [path |-> <<"t","/","D","E","P","/","n",".","t","x","t">>,
     lines |-> << <<"t","o","d","o">> >>]

\* files of the tree outside the candidate directory
SourceFiles ==
    << [path |-> <<"t","/","s","r","c","/","a","p","p",".","j","s">>,
        lines |-> << <<"i","m","p","o","r","t"," ","w","s">>,
                     <<"R","q"," ","="," ","1">>,
                     <<"u","s","e"," ","@","a","/","u","i">> >>],
       [path |-> <<"t","/","d","o","c","s","/","n",".","m","d">>,
        lines |-> << <<"s","e","e"," ","p","i","p",".","p","o","t","e","n","t",
                       "i","a","l",":"," ","r","q">>,
                     <<" "," ","i","m","p","o","r","t"," ","w","s">> >>],
       [path |-> <<"t","/",".","e","n","v">>,
        lines |-> << <<"w","s","=","1">> >>] >>

\* the report a previous run left behind
StaleReportFile ==
    [path |-> PathJoin(source_dir, STR_report_csv),
     lines |-> << <<"p","a","c","k","a","g","e","_","n","a","m","e">>,
                  <<"l","p",",","n","p","m">> >>]

\* a candidate list holding the first n lines of pool; no file when n < 0
PotentialFile(name, pool, n) ==
    IF n < 0 THEN <<>>
    ELSE << [path |-> PathJoin(PathJoin(source_dir, STR_DEP), name),
             lines |-> SubSeq(pool, 1, n)] >>

\* the tree: the candidate directory (when there is one) with n1 and n2 lines
\* in its two lists, the sources, and the stale report (when there is one)
Tree(dep, n1, n2, stale) ==
    (IF dep
     THEN PotentialFile(NpmFile, NpmPool, n1) \o PotentialFile(PipFile, PipPool, n2)
          \o <<DepNotes>>
     ELSE <<>>)
    \o SourceFiles \o (IF stale THEN <<StaleReportFile>> ELSE <<>>)

Max0(n) == IF n < 0 THEN 0 ELSE n

(***************************************************************************)
(* The remote service: what one requests.post may come back with.          *)
(***************************************************************************)
StatusCodes == {101, 200, 204, 302, 399, 400, 404, 499, 500, 503}

EmptyDict == <<>>

\* JSON objects a message content may hold; name is the candidate's name
ResponseObjects(name) ==
    { [package_name |-> name, classification |-> "Potential Vulnerability",
       justification |-> "J", highest_risk_context |-> "E", risk_signals |-> "S"],
      [classification |-> "False Positive", confidence |-> "High",
       justification |-> "J", highest_risk_context |-> "N/A"],
      [package_name |-> <<"z">>, package_type |-> <<"g","o">>,
       classification |-> "Needs Review", justification |-> "J",
       highest_risk_context |-> "E"],
      EmptyDict }

\* the shapes of a 200 body: no choice at all; a choice without content; a
\* null content; text that is no JSON; JSON inside prose; a JSON array; a JSON
\* object
BodyForms == {"no_choices", "absent", "null", "invalid", "embedded", "array", "object"}

Bodies(name) ==
    { [form |-> f, obj |-> EmptyDict] : f \in BodyForms \ {"object", "embedded"} }
    \cup { [form |-> "object", obj |-> o] : o \in ResponseObjects(name) }
    \cup { [form |-> "embedded",
            obj |-> [classification |-> "False Positive", confidence |-> "High",
                     justification |-> "J", highest_risk_context |-> "N/A"]] }

NoBody == [form |-> "none", obj |-> EmptyDict]

\* a requests.RequestException (timeout, connection error), or a response
Responses(name) ==
    { [kind |-> "exception", status |-> 0, body |-> NoBody] }
    \cup { [kind |-> "http", status |-> st, body |-> NoBody] : st \in StatusCodes \ {200} }
    \cup { [kind |-> "http", status |-> 200, body |-> b] : b \in Bodies(name) }

NoResponse == [kind |-> "none", status |-> 0, body |-> NoBody]

(***************************************************************************)
(* analyze_with_llm (the definition in force, lines 210-265): one attempt. *)
(***************************************************************************)
max_retries == 3

\* d[k] = v on a dict
SetItem(d, k, v) == (k :> v) @@ d

\* result.get('choices', [{}])[0].get('message', {}).get('content', '{}')
\* followed by json.loads: the value parsed, or the error raised
JsonLoads(body) ==
    CASE body.form = "no_choices" -> [tag |-> "IndexError", val |-> EmptyDict]
      [] body.form = "null" -> [tag |-> "TypeError", val |-> EmptyDict]
      [] body.form \in {"invalid", "embedded"} -> [tag |-> "JSONDecodeError", val |-> EmptyDict]
      [] body.form = "array" -> [tag |-> "list", val |-> EmptyDict]
      [] body.form = "absent" -> [tag |-> "dict", val |-> EmptyDict]
      [] OTHER -> [tag |-> "dict", val |-> body.obj]

\* faulty variant: the lower limit taken exclusively
IsClientError_Strict(status) == 400 < status /\ status < 500

\* 400 <= response.status_code < 500
IsClientError(status) == 400 <= status /\ status < 500

\* faulty variant: the analysis of a good response is not returned and the
\* loop goes on
AttemptOutcome_NoReturn(resp) ==
    IF resp.kind = "exception" THEN "retry"
    ELSE IF resp.status = 200
         THEN (IF JsonLoads(resp.body).tag = "dict" THEN "retry" ELSE "raise")
         ELSE IF 400 <= resp.status /\ resp.status < 500 THEN "return_none" ELSE "retry"

\* what one pass through the loop body does with the response: return the
\* analysis, return None, go on to the backoff, or let an error escape (only
\* requests.RequestException is caught)
AttemptOutcome(resp) ==
    IF resp.kind = "exception" THEN "retry"
    ELSE IF resp.status = 200
         THEN (IF JsonLoads(resp.body).tag = "dict" THEN "return_analysis" ELSE "raise")
         ELSE IF IsClientError(resp.status) THEN "return_none" ELSE "retry"

\* faulty variant: the decision of the service is replaced
Analysis_Overridden(resp, ptype) ==
    SetItem(SetItem(JsonLoads(resp.body).val, "package_type", ptype),
            "classification", "False Positive")

\* analysis = json.loads(json_text); analysis['package_type'] = package_type
Analysis(resp, ptype) == SetItem(JsonLoads(resp.body).val, "package_type", ptype)

\* faulty variant: a delay growing by one second per attempt
BackoffWait_Linear(n) == n + 1

\* wait = (2 ** attempt)
BackoffWait(n) == 2 ^ n

\* faulty variant: the loop ends one attempt early
HasNextAttempt_OneLess(n) == n + 1 < max_retries - 1

\* whether range(max_retries) holds another attempt after attempt n
HasNextAttempt(n) == n + 1 < max_retries

None == [isNone |-> TRUE, val |-> EmptyDict]

Some(d) == [isNone |-> FALSE, val |-> d]

\* `if analysis:` on a dict or None
Truthy(a) == ~a.isNone /\ DOMAIN a.val # {}

\* the record main appends when analyze_with_llm returned nothing
FailedRecord(name, ptype) ==
    [package_name |-> name, package_type |-> ptype,
     classification |-> "Analysis Failed",
     justification |-> "API call failed after retries.",
     highest_risk_context |-> "N/A"]

\* the home organization name main is called with
target_org == <<"a">>

\* the query built by the definition of analyze_with_llm in force (lines
\* 216-229): name, type, organization and the evidence list as it is
user_query(name, ptype, home_org, context_list) ==
    [package_name |-> name, package_type |-> ptype, home_org |-> home_org,
     context_snippets |-> context_list]

NoRequest == [package_name |-> <<>>, package_type |-> <<>>, home_org |-> <<>>,
              context_snippets |-> <<>>]

\* time.sleep(1) of main, line 377
PaceWait == 1

\* time.sleep(2) of process_packages, line 396
RateLimitWait == 2

\* no request issued yet
NoPacing == [requested |-> FALSE, waits |-> <<>>]

\* a classification request is issued
Requested == [requested |-> TRUE, waits |-> <<>>]

\* a pacing wait of duration d is spent
Slept(p, d) == [p EXCEPT !.waits = Append(@, d)]

\* no function is being applied on its own
NoProbe == [fn |-> "none", arg |-> <<>>, out |-> <<>>, done |-> FALSE]

(***************************************************************************)
(* The report (main, lines 382-396) and its summary (print_summary).       *)
(***************************************************************************)
fieldnames == <<"package_name", "package_type", "classification",
                "justification", "highest_risk_context">>

FieldSet == {fieldnames[i] : i \in DOMAIN fieldnames}

\* a missing column is written empty (DictWriter's restval)
EmptyCell(k) == IF k \in {"package_name", "package_type"} THEN <<>> ELSE ""

\* filtered_row as csv.DictWriter writes it
Row(r) == [k \in FieldSet |-> IF k \in DOMAIN r THEN r[k] ELSE EmptyCell(k)]

Rows(rs) == [i \in DOMAIN rs |-> Row(rs[i])]

CountOf(rows, label) == Cardinality({i \in DOMAIN rows : rows[i].classification = label})

\* the counts print_summary prints
Summary(rows) ==
    [total |-> Len(rows),
     potential_vulns |-> CountOf(rows, "Potential Vulnerability"),
     false_positives |-> CountOf(rows, "False Positive"),
     failed_analysis |-> CountOf(rows, "Analysis Failed")]

NoSummary == [total |-> -1, potential_vulns |-> -1, false_positives |-> -1,
              failed_analysis |-> -1]

StaleRows == << [package_name |-> <<"l","p">>, package_type |-> <<"n","p","m">>,
                 classification |-> "False Positive", justification |-> "J",
                 highest_risk_context |-> "N/A"] >>

(***************************************************************************)
(* State of one run of LLM_Triager.main.                                   *)
(***************************************************************************)
VARIABLES
    api_key_set,       \* whether OPENAI_API_KEY is set
    USE_RIPGREP,       \* the result of the capability probe
    tree,              \* the files under source_dir
    report,            \* llm_analysis_report.csv: whether it exists, its rows
    pc,                \* where main stands
    exit_code,         \* the process's exit status, -1 while it runs
    potential_files,   \* the candidate lists found
    file_idx,          \* the list being processed
    package_type,      \* its ecosystem
    package_names,     \* its candidates
    name_idx,          \* the candidate being processed
    context_snippets,  \* the evidence found for it
    attempt,           \* the loop variable of analyze_with_llm
    response,          \* the response being handled
    analysis,          \* what analyze_with_llm returned
    results,           \* the records appended so far
    summary,           \* the counts print_summary printed
    report_written,    \* history: this run wrote its report without error
    owner,             \* history: the candidate each record was appended for
    reqs,              \* history: requests issued for the current candidate
    waits,             \* history: backoff sleeps of the current candidate
    hist,              \* history: outcome of each attempt of the current candidate
    packages,          \* Triager.py: the (name, type) pairs loaded
    pkg_idx,           \* Triager.py: the pair being processed
    pkg_analysis,      \* Triager.py: what analyze_with_llm returned for it
    context_files,     \* Triager.py: names of the files under contexts/
    analysis_files,    \* Triager.py: the files under analysis/, name and content
    counts,            \* Triager.py: success_count and fail_count
    pending,           \* Triager.py: analysis files generate_report has yet to visit
    entries,           \* Triager.py: the sections of the report, in order
    search_failed,     \* history: the search of the current candidate timed out or failed
    request,           \* the query posted for the current candidate
    probe,             \* a function of the source applied to one input on its own
    pacing             \* history: whether a request was issued, the pacing waits since the last

tvars == <<packages, pkg_idx, pkg_analysis, context_files, analysis_files, counts,
           pending, entries>>

vars == <<api_key_set, USE_RIPGREP, tree, report, pc, exit_code, potential_files,
          file_idx, package_type, package_names, name_idx, context_snippets,
          attempt, response, analysis, results, summary, report_written, owner,
          reqs, waits, hist, tvars, search_failed, request, probe, pacing>>

lvars == <<report, potential_files, file_idx, package_type, package_names, name_idx,
           context_snippets, attempt, response, analysis, results, summary,
           report_written, owner, reqs, waits, hist, search_failed, request>>

env == <<api_key_set, USE_RIPGREP, tree>>

dep_dir == PathJoin(source_dir, STR_DEP)

\* faulty variant: a missing directory is taken for an empty one
DepExists_Always == TRUE

DepExists == \E k \in DOMAIN tree : IsUnder(tree[k].path, dep_dir)

\* the candidates of the k-th list
NamesOfFile(k) == PackageNames(FileLines(tree, PathJoin(dep_dir, potential_files[k])))

\* the candidates of the lists before the k-th
RECURSIVE Offset(_)
Offset(k) == IF k <= 1 THEN 0 ELSE Offset(k - 1) + Len(NamesOfFile(k - 1))

\* the input candidate sequence: files in the order read, names in line order
RECURSIVE CandidatesFrom(_)
CandidatesFrom(k) ==
    IF k > Len(potential_files) THEN <<>>
    ELSE [i \in DOMAIN NamesOfFile(k) |->
            [name |-> NamesOfFile(k)[i], type |-> PackageType(potential_files[k])]]
         \o CandidatesFrom(k + 1)

Candidates == CandidatesFrom(1)

\* the position of the current candidate in the input candidate sequence
CandIndex == Offset(file_idx) + name_idx

package_name == package_names[name_idx]

\* the locals of main and of process_packages before the run
InitLocals ==
    /\ exit_code = -1
    /\ packages = <<>>
    /\ pkg_idx = 0
    /\ pkg_analysis = None
    /\ context_files = {}
    /\ analysis_files = {}
    /\ counts = [success |-> 0, fail |-> 0]
    /\ pending = {}
    /\ entries = <<>>
    /\ potential_files = <<>>
    /\ file_idx = 0
    /\ package_type = <<>>
    /\ package_names = <<>>
    /\ name_idx = 0
    /\ context_snippets = <<>>
    /\ attempt = 0
    /\ response = NoResponse
    /\ analysis = None
    /\ results = <<>>
    /\ summary = NoSummary
    /\ report_written = FALSE
    /\ owner = <<>>
    /\ reqs = 0
    /\ waits = <<>>
    /\ hist = <<>>
    /\ search_failed = FALSE
    /\ request = NoRequest
    /\ pacing = NoPacing

Init ==
    /\ api_key_set \in BOOLEAN
    /\ USE_RIPGREP \in BOOLEAN
    /\ \E dep \in BOOLEAN, stale \in BOOLEAN,
          n1 \in -1..Len(NpmPool), n2 \in -1..Len(PipPool) :
         /\ Max0(n1) + Max0(n2) <= MaxCands
         /\ ~dep => (n1 = -1 /\ n2 = -1)
         /\ tree = Tree(dep, n1, n2, stale)
         /\ report = [exists |-> stale, rows |-> IF stale THEN StaleRows ELSE <<>>]
    /\ pc \in {"start", "t_start"}
    /\ probe = NoProbe
    /\ InitLocals

(***************************************************************************)
(* main, lines 315-338: the setup checks.                                  *)
(***************************************************************************)
Setup ==
    /\ pc = "start"
    /\ IF ~api_key_set \/ ~DepExists
       THEN pc' = "exit" /\ exit_code' = 1 /\ UNCHANGED potential_files
       ELSE /\ potential_files' = ListPotential(tree, dep_dir)
            /\ IF potential_files' = <<>>
               THEN pc' = "exit" /\ exit_code' = 0
               ELSE pc' = "files" /\ UNCHANGED exit_code
    /\ file_idx' = 1
    /\ UNCHANGED <<search_failed, request, probe, pacing, tvars, env, report, package_type, package_names, name_idx,
                   context_snippets, attempt, response, analysis, results,
                   summary, report_written, owner, reqs, waits, hist>>

(***************************************************************************)
(* main, lines 340-357: the next candidate list is read.                   *)
(***************************************************************************)
OpenFile ==
    /\ pc = "files"
    /\ file_idx <= Len(potential_files)
    /\ package_type' = PackageType(potential_files[file_idx])
    /\ package_names' = NamesOfFile(file_idx)
    /\ IF package_names' = <<>>
       THEN file_idx' = file_idx + 1 /\ pc' = "files" /\ name_idx' = 0
       ELSE name_idx' = 1 /\ pc' = "search" /\ UNCHANGED file_idx
    /\ UNCHANGED <<search_failed, request, probe, pacing, tvars, env, report, exit_code, potential_files, context_snippets,
                   attempt, response, analysis, results, summary, report_written, owner, reqs,
                   waits, hist>>

(***************************************************************************)
(* main, line 362: find_all_context. The search command runs to its end,   *)
(* or times out or fails, and run_search then returns the empty string.    *)
(***************************************************************************)
FindContext ==
    /\ pc = "search"
    /\ \E completes \in BOOLEAN :
         /\ context_snippets' =
               find_all_context(
                   IF completes
                   THEN run_search(tree, package_name, source_dir, TRUE, USE_RIPGREP)
                   ELSE <<>>,
                   source_dir)
         /\ search_failed' = ~completes
    /\ attempt' = 0
    /\ pc' = "post"
    /\ UNCHANGED <<request, probe, pacing, tvars, env, report, exit_code, potential_files, file_idx, package_type,
                   package_names, name_idx, response, analysis, results, summary, report_written,
                   owner, reqs, waits, hist>>

(***************************************************************************)
(* analyze_with_llm, line 247: a request is issued and comes back.         *)
(***************************************************************************)
Post ==
    /\ pc = "post"
    /\ request' = user_query(package_name, package_type, target_org, context_snippets)
    /\ response' \in Responses(package_name)
    /\ reqs' = reqs + 1
    /\ pacing' = Requested
    /\ pc' = "handle"
    /\ UNCHANGED <<search_failed, probe, tvars, env, report, exit_code, potential_files, file_idx, package_type,
                   package_names, name_idx, context_snippets, attempt, analysis,
                   results, summary, report_written, owner, waits, hist>>

(***************************************************************************)
(* analyze_with_llm, lines 248-258: the response is handled.               *)
(***************************************************************************)
Handle ==
    /\ pc = "handle"
    /\ LET out == AttemptOutcome(response)
       IN  /\ hist' = Append(hist, out)
           /\ CASE out = "return_analysis" ->
                     analysis' = Some(Analysis(response, package_type)) /\ pc' = "ret"
                [] out = "return_none" -> analysis' = None /\ pc' = "ret"
                [] out = "retry" -> pc' = "backoff" /\ UNCHANGED analysis
                [] OTHER -> pc' = "except" /\ UNCHANGED analysis
    /\ UNCHANGED <<search_failed, request, probe, pacing, tvars, env, report, exit_code, potential_files, file_idx, package_type,
                   package_names, name_idx, context_snippets, attempt, response,
                   results, summary, report_written, owner, reqs, waits>>

(***************************************************************************)
(* analyze_with_llm, lines 260-265: the backoff sleep, then the next       *)
(* attempt or, when range(max_retries) is used up, return None.            *)
(***************************************************************************)
Backoff ==
    /\ pc = "backoff"
    /\ waits' = Append(waits, BackoffWait(attempt))
    /\ IF HasNextAttempt(attempt)
       THEN attempt' = attempt + 1 /\ pc' = "post" /\ UNCHANGED analysis
       ELSE analysis' = None /\ pc' = "ret" /\ UNCHANGED attempt
    /\ response' = NoResponse
    /\ UNCHANGED <<search_failed, request, probe, pacing, tvars, env, report, exit_code, potential_files, file_idx, package_type,
                   package_names, name_idx, context_snippets, results, summary, report_written,
                   owner, reqs, hist>>

(***************************************************************************)
(* main, lines 367-376: the record of the candidate is appended.           *)
(***************************************************************************)
Record ==
    /\ pc = "ret"
    /\ results' = Append(results,
                         IF Truthy(analysis) THEN analysis.val
                         ELSE FailedRecord(package_name, package_type))
    /\ owner' = Append(owner, CandIndex)
    /\ pc' = "pace"
    /\ UNCHANGED <<search_failed, request, probe, pacing, tvars, env, report, exit_code, potential_files, file_idx, package_type,
                   package_names, name_idx, context_snippets, attempt, response,
                   analysis, summary, report_written, reqs, waits, hist>>

\* the locals of one iteration are dropped
ResetIteration ==
    /\ context_snippets' = <<>>
    /\ attempt' = 0
    /\ response' = NoResponse
    /\ analysis' = None
    /\ reqs' = 0
    /\ waits' = <<>>
    /\ hist' = <<>>
    /\ search_failed' = FALSE
    /\ request' = NoRequest

(***************************************************************************)
(* main, line 377: time.sleep(1), then the next candidate or the next list.*)
(***************************************************************************)
Pace ==
    /\ pc = "pace"
    /\ IF name_idx < Len(package_names)
       THEN name_idx' = name_idx + 1 /\ pc' = "search" /\ UNCHANGED file_idx
       ELSE file_idx' = file_idx + 1 /\ pc' = "files" /\ name_idx' = 0
    /\ pacing' = Slept(pacing, PaceWait)
    /\ ResetIteration
    /\ UNCHANGED <<probe, tvars, env, report, exit_code, potential_files, package_type,
                   package_names, results, summary, report_written, owner>>

(***************************************************************************)
(* main, lines 379-380: an error raised while a list is processed is       *)
(* printed and the loop goes on with the next list.                        *)
(***************************************************************************)
FileError ==
    /\ pc = "except"
    /\ file_idx' = file_idx + 1
    /\ name_idx' = 0
    /\ pc' = "files"
    /\ ResetIteration
    /\ UNCHANGED <<probe, pacing, tvars, env, report, exit_code, potential_files, package_type,
                   package_names, results, summary, report_written, owner>>

(***************************************************************************)
(* main, lines 382-398: the report is written, or the write fails: the     *)
(* file cannot be opened, or it is opened (and emptied) and a write fails. *)
(***************************************************************************)
WriteReport ==
    /\ pc = "files"
    /\ file_idx > Len(potential_files)
    /\ IF results # <<>>
       THEN \/ report' = [exists |-> TRUE, rows |-> Rows(results)]
               /\ report_written' = TRUE
            \/ report' = report /\ UNCHANGED report_written
            \/ report' = [exists |-> TRUE, rows |-> <<>>] /\ UNCHANGED report_written
       ELSE UNCHANGED <<report, report_written>>
    /\ pc' = "summary"
    /\ UNCHANGED <<search_failed, request, probe, pacing, tvars, env, exit_code, potential_files, file_idx, package_type,
                   package_names, name_idx, context_snippets, attempt, response,
                   analysis, results, summary, owner, reqs, waits, hist>>

(***************************************************************************)
(* main, line 403 and print_summary: the counts are read from the report   *)
(* file; main then returns.                                                *)
(***************************************************************************)
PrintSummary ==
    /\ pc = "summary"
    /\ summary' = IF report.exists /\ report.rows # <<>>
                  THEN Summary(report.rows) ELSE NoSummary
    /\ pc' = "exit"
    /\ exit_code' = 0
    /\ UNCHANGED <<search_failed, request, probe, pacing, tvars, env, report, report_written, potential_files, file_idx, package_type,
                   package_names, name_idx, context_snippets, attempt, response,
                   analysis, results, owner, reqs, waits, hist>>

(***************************************************************************)
(* Triager.py: loading the candidates (load_potential_packages).           *)
(***************************************************************************)
\* index of the last occurrence of character c in s, 0 when there is none
LastIndex(s, c) ==
    IF \E i \in DOMAIN s : s[i] = c
    THEN CHOOSE i \in DOMAIN s : s[i] = c /\ \A j \in (i + 1)..Len(s) : s[j] # c
    ELSE 0

\* Path.stem: the name without its last suffix
Stem(filename) ==
    LET i == LastIndex(filename, ".")
    IN  IF i > 1 THEN SubSeq(filename, 1, i - 1) ELSE filename

\* the pairs appended for one file: every non-empty stripped line
RECURSIVE PairsOf(_, _)
PairsOf(lines, ptype) ==
    IF lines = <<>> THEN <<>>
    ELSE (IF Strip(Head(lines)) # <<>>
          THEN << [name |-> Strip(Head(lines)), type |-> ptype] >>
          ELSE <<>>)
         \o PairsOf(Tail(lines), ptype)

RECURSIVE LoadFrom(_, _)
LoadFrom(files, names) ==
    IF names = <<>> THEN <<>>
    ELSE PairsOf(FileLines(files, PathJoin(PathJoin(source_dir, STR_DEP), Head(names))),
                 Stem(Head(names)))
         \o LoadFrom(files, Tail(names))

\* load_potential_packages, for an existing DEP directory
load_potential_packages(files) ==
    LoadFrom(files, ListPotential(files, PathJoin(source_dir, STR_DEP)))

\* re.sub(r'[^a-zA-Z0-9._-]', '_', package_name)
SafeName(name) ==
    [i \in DOMAIN name |->
        IF IsLetter(name[i]) \/ IsDigit(name[i]) \/ name[i] \in {".", "_", "-"}
        THEN name[i] ELSE "_"]

STR_json == <<".","j","s","o","n">>

\* f"{package_type}_{safe_name}.json"
AnalysisFileName(p) == p.type \o <<"_">> \o SafeName(p.name) \o STR_json

(***************************************************************************)
(* Triager.py: DependencyTriager.analyze_with_llm (one request, no retry). *)
(***************************************************************************)
\* the JSON value null, which json.loads turns into None
JsonNull == <<"JSON_NULL">>

\* JSON objects a message content may hold
TriageObjects ==
    { [risk_level |-> <<"H", "I", "G", "H">>, technical_analysis |-> "A"],
      [risk_level |-> <<"l","o","w">>, technical_analysis |-> "A"],
      [risk_level |-> JsonNull, technical_analysis |-> "A"],
      EmptyDict }

\* a failed API call, or a response with its message content
TriageResponses ==
    { [kind |-> "exception", status |-> 0, body |-> NoBody] }
    \cup { [kind |-> "http", status |-> 200, body |-> [form |-> f, obj |-> EmptyDict]] :
             f \in {"no_choices", "null", "invalid", "array"} }
    \cup { [kind |-> "http", status |-> 200, body |-> [form |-> "object", obj |-> o]] :
             o \in TriageObjects }
    \cup { [kind |-> "http", status |-> 200,
            body |-> [form |-> "embedded",
                      obj |-> [risk_level |-> <<"M","E","D","I","U","M">>]]] }

\* the metadata added to a parsed analysis
WithMetadata(d, p) ==
    SetItem(SetItem(SetItem(d, "package_name", p.name), "package_type", p.type),
            "timestamp", "ts")

\* the value returned: the analysis parsed directly, the analysis found by
\* re.search(r'\{.*\}') in text that is no JSON, or None (every error is
\* caught inside the method)
triager_analyze_with_llm(resp, p) ==
    IF resp.kind = "exception" THEN None
    ELSE IF JsonLoads(resp.body).tag = "dict"
         THEN Some(WithMetadata(JsonLoads(resp.body).val, p))
         ELSE IF resp.body.form = "embedded"
              THEN Some(SetItem(WithMetadata(resp.body.obj, p), "parse_warning",
                                "Response was extracted from text"))
              ELSE None

(***************************************************************************)
(* Triager.py: generate_report, one analysis file.                         *)
(***************************************************************************)
UpperChar(c) ==
    IF \E i \in DOMAIN LowerAlpha : LowerAlpha[i] = c
    THEN UpperAlpha[CHOOSE i \in DOMAIN LowerAlpha : LowerAlpha[i] = c]
    ELSE c

\* str.upper()
Upper(s) == [i \in DOMAIN s |-> UpperChar(s[i])]

\* analysis.get("risk_level", "UNKNOWN").upper()
RiskLevel(d) == Upper(IF "risk_level" \in DOMAIN d THEN d.risk_level ELSE <<"U", "N", "K", "N", "O", "W", "N">>)

Bucket(level) ==
    IF level \in {<<"C", "R", "I", "T", "I", "C", "A", "L">>, <<"H", "I", "G", "H">>} THEN "vulnerable"
    ELSE IF level \in {<<"L", "O", "W">>, <<"N", "O", "N", "E">>} THEN "false_positive"
    ELSE "uncertain"

\* .upper() raises on a risk_level that is no string (line 428)
RiskLevelRaises(d) == "risk_level" \in DOMAIN d /\ d.risk_level = JsonNull

\* the section written for one analysis file: the heading of its bucket, or
\* the PARSE ERROR heading when an error was raised (lines 444-447)
ReportEntry(f) ==
    IF RiskLevelRaises(f.data)
    THEN [file |-> f.name, package_name |-> <<>>, package_type |-> <<>>,
          risk_level |-> <<>>, bucket |-> "error"]
    ELSE [file |-> f.name,
          package_name |-> IF "package_name" \in DOMAIN f.data THEN f.data.package_name
                           ELSE STR_unknown,
          package_type |-> IF "package_type" \in DOMAIN f.data THEN f.data.package_type
                           ELSE STR_unknown,
          risk_level |-> RiskLevel(f.data),
          bucket |-> Bucket(RiskLevel(f.data))]

\* the counters of generate_report after the files visited so far
ReportCounts(es) ==
    LET n(b) == Cardinality({i \in DOMAIN es : es[i].bucket = b})
    IN  [analyzed_count |-> Len(es),
         vulnerable_count |-> n("vulnerable"),
         false_positive_count |-> n("false_positive"),
         uncertain_count |-> n("uncertain"),
         error_count |-> n("error")]

(***************************************************************************)
(* Triager.py main, lines 502-514, and setup_openai: ripgrep and the key   *)
(* are required; the connection test may fail.                             *)
(***************************************************************************)
TriagerSetup ==
    /\ pc = "t_start"
    /\ IF ~USE_RIPGREP \/ ~api_key_set
       THEN pc' = "t_exit" /\ exit_code' = 1
       ELSE \/ pc' = "t_exit" /\ exit_code' = 1
            \/ pc' = "t_load" /\ UNCHANGED exit_code
    /\ UNCHANGED <<probe, pacing, env, lvars, tvars>>

(***************************************************************************)
(* process_packages, lines 354-360.                                        *)
(***************************************************************************)
LoadPackages ==
    /\ pc = "t_load"
    /\ IF ~DepExists
       THEN pc' = "t_exit" /\ exit_code' = 1 /\ UNCHANGED <<packages, pkg_idx>>
       ELSE /\ packages' = load_potential_packages(tree)
            /\ pkg_idx' = 1
            /\ pc' = IF packages' = <<>> THEN "t_report" ELSE "t_analyze"
            /\ UNCHANGED exit_code
    /\ pending' = analysis_files
    /\ UNCHANGED <<probe, pacing, env, lvars, pkg_analysis, context_files, analysis_files, counts,
                   entries>>

(***************************************************************************)
(* process_packages, lines 365-382: the context is extracted and saved,    *)
(* the request is made.                                                    *)
(***************************************************************************)
AnalyzePackage ==
    /\ pc = "t_analyze"
    /\ context_files' = context_files \cup {AnalysisFileName(packages[pkg_idx])}
    /\ \E resp \in TriageResponses :
         pkg_analysis' = triager_analyze_with_llm(resp, packages[pkg_idx])
    /\ pacing' = Requested
    /\ pc' = "t_save"
    /\ UNCHANGED <<probe, env, lvars, exit_code, packages, pkg_idx, analysis_files, counts,
                   pending, entries>>

(***************************************************************************)
(* process_packages, lines 384-396: the analysis is saved or the failure   *)
(* counted; after the last pair the files of analysis/ are listed.         *)
(***************************************************************************)
SavePackage ==
    /\ pc = "t_save"
    /\ IF Truthy(pkg_analysis)
       THEN /\ analysis_files' =
                 {f \in analysis_files : f.name # AnalysisFileName(packages[pkg_idx])}
                 \cup {[name |-> AnalysisFileName(packages[pkg_idx]),
                        data |-> pkg_analysis.val]}
            /\ counts' = [counts EXCEPT !.success = @ + 1]
       ELSE /\ counts' = [counts EXCEPT !.fail = @ + 1]
            /\ UNCHANGED analysis_files
    /\ pkg_analysis' = None
    /\ pkg_idx' = pkg_idx + 1
    /\ pc' = IF pkg_idx < Len(packages) THEN "t_analyze" ELSE "t_report"
    /\ pending' = analysis_files'
    /\ pacing' = Slept(pacing, RateLimitWait)
    /\ UNCHANGED <<probe, env, lvars, exit_code, packages, context_files, entries>>

(***************************************************************************)
(* generate_report, lines 420-447: the next file of analysis_dir.glob, in  *)
(* whatever order the directory yields.                                    *)
(***************************************************************************)
ReportNextFile ==
    /\ pc = "t_report"
    /\ \E f \in pending :
         /\ entries' = Append(entries, ReportEntry(f))
         /\ pending' = pending \ {f}
    /\ UNCHANGED <<probe, pacing, env, lvars, pc, exit_code, packages, pkg_idx, pkg_analysis,
                   context_files, analysis_files, counts>>

(***************************************************************************)
(* generate_report, lines 449-481, and main, lines 518-521.                *)
(***************************************************************************)
ReportDone ==
    /\ pc = "t_report"
    /\ pending = {}
    /\ pc' = "t_exit"
    /\ exit_code' = 0
    /\ report_written' = TRUE
    /\ UNCHANGED <<probe, pacing, env, tvars, report, potential_files, file_idx, package_type,
                   package_names, name_idx, context_snippets, attempt, response,
                   analysis, results, summary, owner, reqs, waits, hist,
                   search_failed, request>>

(***************************************************************************)
(* generate_report, lines 407-470: opening the report file or a write to   *)
(* it raises; nothing catches the error and the interpreter exits with 1.  *)
(***************************************************************************)
ReportWriteFails ==
    /\ pc = "t_report"
    /\ pc' = "t_exit"
    /\ exit_code' = 1
    /\ UNCHANGED <<probe, pacing, env, lvars, tvars>>

Next ==
    \/ Setup
    \/ OpenFile
    \/ FindContext
    \/ Post
    \/ Handle
    \/ Backoff
    \/ Record
    \/ Pace
    \/ FileError
    \/ WriteReport
    \/ PrintSummary
    \/ TriagerSetup
    \/ LoadPackages
    \/ AnalyzePackage
    \/ SavePackage
    \/ ReportNextFile
    \/ ReportDone
    \/ ReportWriteFails

Spec == Init /\ [][Next]_vars


(***************************************************************************)
(* The search command: how run_search builds it (lines 120-148) and what   *)
(* the shell it is handed to (shell=True, line 151) makes of it.           *)
(***************************************************************************)
\* n backslashes
RECURSIVE Backslashes(_)
Backslashes(n) == IF n <= 0 THEN <<>> ELSE <<"\\">> \o Backslashes(n - 1)

\* list2cmdline quotes an argument that is empty or holds a space or a tab
NeedQuote(arg) == arg = <<>> \/ \E i \in DOMAIN arg : arg[i] \in {" ", "\t"}

\* list2cmdline, the characters of one argument from position i on, with bs
\* backslashes buffered: a double quote is preceded by a backslash and the
\* backslashes before it are doubled; other backslashes are copied
RECURSIVE QuoteArg(_, _, _)
QuoteArg(arg, i, bs) ==
    IF i > Len(arg)
    THEN Backslashes(bs)
         \o (IF NeedQuote(arg) THEN Backslashes(bs) \o <<"\"">> ELSE <<>>)
    ELSE IF arg[i] = "\\" THEN QuoteArg(arg, i + 1, bs + 1)
    ELSE IF arg[i] = "\"" THEN Backslashes(2 * bs) \o <<"\\", "\"">> \o QuoteArg(arg, i + 1, 0)
    ELSE Backslashes(bs) \o <<arg[i]>> \o QuoteArg(arg, i + 1, 0)

\* subprocess.list2cmdline(cmd_list)
RECURSIVE list2cmdline(_)
list2cmdline(seq) ==
    IF seq = <<>> THEN <<>>
    ELSE (IF NeedQuote(Head(seq)) THEN <<"\"">> ELSE <<>>)
         \o QuoteArg(Head(seq), 1, 0)
         \o (IF Tail(seq) = <<>> THEN <<>> ELSE <<" ">> \o list2cmdline(Tail(seq)))

\* the command string handed to subprocess.run(command, shell=True): the
\* argument list of the ripgrep branch joined by list2cmdline, or the
\* f-string of the grep branch
command(pattern, search_dir, line_numbers, case_insensitive, fixed_string, use_ripgrep) ==
    LET flags == (IF line_numbers THEN <<"n">> ELSE <<>>)
                 \o (IF case_insensitive THEN <<"i">> ELSE <<>>)
        search_mode_flag == IF fixed_string THEN <<"F">> ELSE <<"E">>
        cmd_list == << <<"r","g">>,
                       <<"-">> \o flags \o search_mode_flag,
                       <<"-","-","n","o","-","h","e","a","d","i","n","g">>,
                       <<"-","-","n","o","-","i","g","n","o","r","e">>,
                       <<"-","g">>,
                       <<"!","l","l","m","_","a","n","a","l","y","s","i","s","_","r","e","p",
                         "o","r","t",".","c","s","v">>,
                       <<"-","g">>,
                       <<"!",".","p","o","t","e","n","t","i","a","l">>,
                       pattern,
                       search_dir >>
        grep == <<"g","r","e","p"," ","-","r">> \o flags \o search_mode_flag
                \o <<" ", "\"">> \o pattern \o <<"\"", " ", "\"">> \o search_dir
                \o <<"\"", " ">>
                \o <<"|"," ","g","r","e","p"," ","-","v","E"," ","\"","(","l",
                     "l","m","_","a","n","a","l","y","s","i","s","_","r","e",
                     "p","o","r","t",".","c","s","v","|","\\",".","p","o","t",
                     "e","n","t","i","a","l",")","\"">>
    IN  IF use_ripgrep THEN list2cmdline(cmd_list) ELSE grep

(***************************************************************************)
(* /bin/sh reading a command string: words, the operators between simple   *)
(* commands, quoting, parameter expansion and command substitution.  A     *)
(* word is a sequence of characters; "$PARAM" in it stands for the value   *)
(* of an expanded parameter and "$CMD" for the output of a substituted    *)
(* command.  The names drawn below hold no other character that is special *)
(* to the shell.  The backquote character is the element "BQ".             *)
(***************************************************************************)
Word(text) == [kind |-> "word", text |-> text]

Operator(c) == [kind |-> "op", text |-> <<c>>]

\* an unterminated quotation: the shell runs nothing
SyntaxError == [kind |-> "error", text |-> <<>>]

IsNameChar(c) == IsLetter(c) \/ IsDigit(c) \/ c = "_"

\* the first position from i on that ends a parameter name
RECURSIVE NameEnd(_, _)
NameEnd(s, i) == IF i <= Len(s) /\ IsNameChar(s[i]) THEN NameEnd(s, i + 1) ELSE i

\* the position of the next backquote from i on, 0 when there is none
RECURSIVE ClosingTick(_, _)
ClosingTick(s, i) ==
    IF i > Len(s) THEN 0 ELSE IF s[i] = "BQ" THEN i ELSE ClosingTick(s, i + 1)

\* what the characters of s contribute, from position i on, q being the
\* quotation in force: a character of a word ("lit"), the mark of a quoted
\* and possibly empty part of a word ("quote"), a blank between words ("sep"),
\* an operator ("op"), or the end of an unterminated quotation ("error")
\* one step of the reading at position i: the items contributed, the next
\* position and the quotation then in force
ShellStep(s, i, q) ==
    LET c == s[i]
        more == i < Len(s)
        Item(t, ch) == [t |-> t, c |-> ch]
        Step(items, j, r) == [items |-> items, i |-> j, q |-> r]
    IN  CASE q = "single" /\ c = "'" -> Step(<<>>, i + 1, "none")
          [] q = "single" -> Step(<<Item("lit", c)>>, i + 1, q)
          [] c = "$" /\ more /\ IsNameChar(s[i + 1]) ->
                Step(<<Item("lit", "$PARAM")>>, NameEnd(s, i + 1), q)
          [] c = "BQ" /\ ClosingTick(s, i + 1) = 0 ->
                Step(<<Item("error", "")>>, Len(s) + 1, "none")
          [] c = "BQ" -> Step(<<Item("lit", "$CMD")>>, ClosingTick(s, i + 1) + 1, q)
          [] q = "double" /\ c = "\"" -> Step(<<>>, i + 1, "none")
          [] q = "double" /\ c = "\\" /\ more /\ s[i + 1] \in {"$", "BQ", "\"", "\\"} ->
                Step(<<Item("lit", s[i + 1])>>, i + 2, q)
          [] q = "double" -> Step(<<Item("lit", c)>>, i + 1, q)
          [] c \in {" ", "\t"} -> Step(<<Item("sep", c)>>, i + 1, q)
          [] c \in {";", "|", "&"} -> Step(<<Item("op", c)>>, i + 1, q)
          [] c = "\"" -> Step(<<Item("quote", c)>>, i + 1, "double")
          [] c = "'" -> Step(<<Item("quote", c)>>, i + 1, "single")
          [] c = "\\" /\ more -> Step(<<Item("lit", s[i + 1])>>, i + 2, q)
          [] OTHER -> Step(<<Item("lit", c)>>, i + 1, q)

RECURSIVE ShellItems(_, _, _)
ShellItems(s, i, q) ==
    IF i > Len(s)
    THEN (IF q = "none" THEN <<>> ELSE << [t |-> "error", c |-> ""] >>)
    ELSE ShellStep(s, i, q).items
         \o ShellItems(s, ShellStep(s, i, q).i, ShellStep(s, i, q).q)

InWord(item) == item.t \in {"lit", "quote"}

IsLit(item) == item.t = "lit"

\* the number of leading items that belong to one word
RECURSIVE RunLen(_)
RunLen(items) ==
    IF items # <<>> /\ InWord(Head(items)) THEN 1 + RunLen(Tail(items)) ELSE 0

\* the characters of the word made of the items
WordText(items) ==
    LET lits == SelectSeq(items, IsLit) IN [k \in DOMAIN lits |-> lits[k].c]

\* the items grouped into words and operators
RECURSIVE ShellTokens(_)
ShellTokens(items) ==
    IF items = <<>> THEN <<>>
    ELSE IF InWord(Head(items))
    THEN <<Word(WordText(SubSeq(items, 1, RunLen(items))))>>
         \o ShellTokens(SubSeq(items, RunLen(items) + 1, Len(items)))
    ELSE IF Head(items).t = "op"
    THEN <<Operator(Head(items).c)>> \o ShellTokens(Tail(items))
    ELSE IF Head(items).t = "error"
    THEN <<SyntaxError>>
    ELSE ShellTokens(Tail(items))

\* what subprocess.run(command, shell=True) executes
ShellExecutes(cmd) == ShellTokens(ShellItems(cmd, 1, "none"))

\* what subprocess.run(cmd) executes for an argument list: the list itself
ExecExecutes(argv) == [i \in DOMAIN argv |-> Word(argv[i])]

(***************************************************************************)
(* Triager.py: run_ripgrep, lines 91-98: the argument list.                *)
(***************************************************************************)
\* for file_type in file_types: cmd.extend(["-t", file_type])
RECURSIVE TypeFilters(_)
TypeFilters(file_types) ==
    IF file_types = <<>> THEN <<>>
    ELSE << <<"-", "t">>, Head(file_types) >> \o TypeFilters(Tail(file_types))

\* cmd
ripgrep_cmd(pattern, file_types, max_results, target_dir) ==
    << <<"r","g">>, <<"-","F">>, <<"-","n">>, <<"-","-","n","o","-","h","e","a","d","i","n","g">>,
       <<"-","-","c","o","l","o","r","=","n","e","v","e","r">> >>
    \o TypeFilters(file_types)
    \o << <<"-","-","m","a","x","-","c","o","u","n","t">>,
          DecStr(max_results), pattern, target_dir >>

(***************************************************************************)
(* The heuristic hints of the first definition of analyze_with_llm (lines  *)
(* 36-57).                                                                 *)
(***************************************************************************)
\* the unique lines kept
MaxUniqueLines == 15

\* [c["content"] for c in context_list if "content" in c]
EvidenceLines(context_list) == [k \in DOMAIN context_list |-> context_list[k].content]

\* the keys of {line.strip(): None for line in evidence_lines}: each stripped
\* line once, in first-seen order
RECURSIVE UniqueStripped(_, _)
UniqueStripped(lines, k) ==
    IF k > Len(lines) THEN <<>>
    ELSE (IF \E j \in 1..(k - 1) : Strip(lines[j]) = Strip(lines[k])
          THEN <<>> ELSE <<Strip(lines[k])>>)
         \o UniqueStripped(lines, k + 1)

\* "\n".join(lines)
RECURSIVE JoinNewline(_)
JoinNewline(lines) ==
    IF lines = <<>> THEN <<>>
    ELSE IF Len(lines) = 1 THEN Head(lines)
    ELSE Head(lines) \o <<"\n">> \o JoinNewline(Tail(lines))

\* context_text
ContextText(context_list) ==
    JoinNewline(Take(UniqueStripped(EvidenceLines(context_list), 1), MaxUniqueLines))

\* from\s+['"] found in text
FromQuote(text) ==
    \E i \in 1..Len(text) : \E j \in (i + 5)..Len(text) :
        /\ SubSeq(text, i, i + 3) = <<"f", "r", "o", "m">>
        /\ \A k \in (i + 4)..(j - 1) : IsSpace(text[k])
        /\ text[j] \in {"'", "\""}

\* the flags list, in the order of the appends
Flags(name, home_org, context_list) ==
    LET lname == Lower(name)
        text == ContextText(context_list)
        internal == { <<"i","n","t","e","r","n","a","l">>,
                      <<"p","r","i","v","a","t","e">>,
                      <<"c","o","n","f">>,
                      <<"c","o","r","p">>,
                      <<"s","e","c","u","r","e">>,
                      <<"i","n","t","r","a","n","e","t">> }
        private == { <<"w","o","r","k","s","p","a","c","e">>,
                     <<"g","i","t","+","h","t","t","p","s">>,
                     <<"g","i","t","h","u","b">>,
                     <<"f","i","l","e",":">>,
                     <<"l","o","c","a","l",":">>,
                     <<"r","e","l","a","t","i","v","e">> }
        If(cond, flag) == IF cond THEN <<flag>> ELSE <<>>
    IN  If(HasPrefix(lname, <<"@">>) \/ Contains(lname, <<"/">>),
           "scoped_or_namespaced_package")
        \o If(\E w \in internal : Contains(lname, w), "internal_naming_pattern")
        \o If(HasPrefix(lname, Lower(home_org)) \/ HasSuffix(lname, Lower(home_org)),
              "organization_branded_name")
        \o If(\E w \in private : Contains(Lower(text), w),
              "explicit_private_source_detected")
        \o If(Contains(text, <<"i","m","p","o","r","t">>)
              \/ Contains(text, <<"r","e","q","u","i","r","e">>)
              \/ FromQuote(text),
              "appears_to_be_imported")
        \o If(Strip(text) = <<>>, "no_source_context_found")

HasFlag(flags, flag) == \E k \in DOMAIN flags : flags[k] = flag

(***************************************************************************)
(* The functions of the source applied on their own, each to one input     *)
(* drawn from a bounded set: probe holds the function, its input and,      *)
(* once it has been applied, its result.                                   *)
(***************************************************************************)
\* candidate names as an attacker may write them into a candidate list
ShellNames ==
    { <<"l","p">>, <<"a"," ","b">>, <<"a","\"","b">>, <<"$","x">>, <<"BQ","x","BQ">>, <<"a",";","b">>, <<"a","|","b">>, <<"a","\\","b">> }

\* a name without any special character
PlainName == <<"x">>

ProbeInput(fn, arg) == [fn |-> fn, arg |-> arg, out |-> <<>>, done |-> FALSE]

Applied(fn) == probe.fn = fn /\ probe.done

\* run_search, lines 120-151: the command is built and handed to the shell
ProbeRunSearch ==
    /\ pc = "probe"
    /\ probe.fn = "run_search"
    /\ ~probe.done
    /\ probe' = [probe EXCEPT
                   !.out = ShellExecutes(command(probe.arg.pattern, source_dir, TRUE, TRUE,
                                                 TRUE, probe.arg.use_ripgrep)),
                   !.done = TRUE]
    /\ UNCHANGED <<env, lvars, tvars, pc, exit_code, pacing>>

\* Triager.py run_ripgrep, lines 91-101: the argument list is executed
ProbeRunRipgrep ==
    /\ pc = "probe"
    /\ probe.fn = "run_ripgrep"
    /\ ~probe.done
    /\ probe' = [probe EXCEPT
                   !.out = ExecExecutes(ripgrep_cmd(probe.arg.pattern, <<>>, 100, source_dir)),
                   !.done = TRUE]
    /\ UNCHANGED <<env, lvars, tvars, pc, exit_code, pacing>>

\* most lines in a search output drawn here
ProbeMaxLines == 22

STR_src_file == <<"t","/","s",".","j","s">>

\* a well-formed output line: the k-th match
GoodLine(k) == OutputLine(STR_src_file, k, <<"u","s","e"," ","l","p">> \o DecStr(k))

\* a line the search prints that has no path:line:content shape
BinaryNotice == <<"B","i","n","a","r","y"," ","f","i","l","e"," ","t","/","x",".","b","i","n"," ","m","a","t","c","h","e","s">>

\* n output lines, the b-th (when b > 0) being the notice
CapLines(n, b) == [k \in 1..n |-> IF k = b THEN BinaryNotice ELSE GoodLine(k)]

\* content of n characters
LongContent(n) == [i \in 1..n |-> "x"]

\* lengths around the truncation limit
ContentLengths == {0, 1, MaxContentLen - 1, MaxContentLen, MaxContentLen + 1, MaxContentLen + 5}

Paddings == { <<>>, <<" ">>, <<" ", "\t">> }

\* a line whose content has n characters between the paddings, and a second line
LengthLines(n, lpad, rpad) ==
    << STR_src_file \o <<":","1",":">> \o lpad \o LongContent(n) \o rpad, GoodLine(2) >>

\* paths below the searched directory that hold a colon; the second one holds
\* digits between two colons
ColonPaths == { <<"t","/","a",":","b",".","j","s">>, <<"t","/","a",":","3",":","b",".","j","s">> }

\* the output line of a match on line 7 of such a file
ColonLine(path) == OutputLine(path, 7, <<"l","p">>)

\* lines of other shapes: a line number with leading zeros, a colon in the
\* content, no line number, a colon in the path, an empty line, a carriage return
OddLines ==
    { STR_src_file \o <<":","0","0","7",":","l","p">>,
      STR_src_file \o <<":","3",":","a",":"," ","l","p",":","b">>,
      STR_src_file \o <<":","l","p">>,
      <<>>,
      STR_src_file \o <<":", "4", ":", "l", "p", "\r">> }
    \cup { ColonLine(p) : p \in ColonPaths }

\* find_all_context on the output of a search: result.stdout.strip() (line
\* 152) is what run_search returns
ProbeFindAllContext ==
    /\ pc = "probe"
    /\ probe.fn = "find_all_context"
    /\ ~probe.done
    /\ probe' = [probe EXCEPT
                   !.out = find_all_context(Strip(JoinLines(probe.arg.lines)), source_dir),
                   !.done = TRUE]
    /\ UNCHANGED <<env, lvars, tvars, pc, exit_code, pacing>>

\* candidate names and organization names for the hints
HintNames ==
    { <<"@","a","c","m","e","/","i","n","t","e","r","n","a","l","-","a","u","t","h">>,
      <<"a","c","m","e","-","u","t","i","l","s">>,
      <<"u","t","i","l","s","-","a","c","m","e">>,
      <<"l","o","d","a","s","h">>,
      <<"@","A","c","m","e","/","u","i">>,
      <<"c","o","r","p","/","l","i","b">> }

HintOrgs == { <<"a","c","m","e">>, <<"A","c","m","e">>, <<"o","t","h","e","r">> }

\* a dependency declaration of the candidate as it stands in a manifest
DependencyLine(name) == <<"\"","d","e","p","e","n","d","e","n","c","y","\"",":"," ","\"">> \o name \o <<"@","1",".","0",".","0","\"">>

Evidence(content) == [file |-> STR_src_file, line |-> 1, content |-> content]

\* n snippets with contents that differ from one another
FillerEvidence(n) == [k \in 1..n |-> Evidence(<<"x", "=">> \o DecStr(k))]

\* evidence lists: none, a declaration of the candidate, imports, sources, and
\* lists of more distinct lines than context_text keeps
HintContexts(name) ==
    { <<>>,
      FillerEvidence(MaxUniqueLines) \o << Evidence(<<"\"","y","\"",":"," ","\"","g","i","t","h","u","b",":","h","/","y","\"">>) >>,
      FillerEvidence(MaxUniqueLines + 1) \o << Evidence(<<"i","m","p","o","r","t"," ","y">>) >>,
      << Evidence(DependencyLine(name)) >>,
      << Evidence(<<"i","m","p","o","r","t"," ","x"," ","f","r","o","m"," ","'","y","'">>), Evidence(<<" "," ","i","m","p","o","r","t"," ","x"," ","f","r","o","m"," ","'","y","'">>) >>,
      << Evidence(<<"c","o","n","s","t"," ","y"," ","="," ","r","e","q","u","i","r","e","(","\"","y","\"",")">>) >>,
      << Evidence(<<"y"," ","="," ","\"","g","i","t","+","h","t","t","p","s",":","/","/","h","/","y","\"">>), Evidence(DependencyLine(name)) >>,
      << Evidence(<<"\"","y","\"",":"," ","\"","W","o","r","k","s","p","a","c","e",":","*","\"">>) >>,
      << Evidence(<<"f","r","o","m">>), Evidence(<<"\"","y","\"">>) >>,
      << Evidence(<<" ">>) >> }

\* the hints derived by the first definition of analyze_with_llm
ProbeFlags ==
    /\ pc = "probe"
    /\ probe.fn = "flags"
    /\ ~probe.done
    /\ probe' = [probe EXCEPT
                   !.out = Flags(probe.arg.name, probe.arg.home_org, probe.arg.context_list),
                   !.done = TRUE]
    /\ UNCHANGED <<env, lvars, tvars, pc, exit_code, pacing>>

\* the inputs
PureInit ==
    /\ api_key_set = TRUE
    /\ USE_RIPGREP = TRUE
    /\ tree = <<>>
    /\ report = [exists |-> FALSE, rows |-> <<>>]
    /\ pc = "probe"
    /\ InitLocals
    /\ \/ \E name \in ShellNames, rg \in BOOLEAN :
            probe = ProbeInput("run_search", [pattern |-> name, use_ripgrep |-> rg])
       \/ \E name \in ShellNames :
            probe = ProbeInput("run_ripgrep", [pattern |-> name])
       \/ \E n \in 0..ProbeMaxLines : \E b \in 0..n :
            probe = ProbeInput("find_all_context", [lines |-> CapLines(n, b)])
       \/ \E n \in ContentLengths, lpad \in Paddings, rpad \in Paddings :
            probe = ProbeInput("find_all_context", [lines |-> LengthLines(n, lpad, rpad)])
       \/ \E name \in HintNames, org \in HintOrgs : \E ctx \in HintContexts(name) :
            probe = ProbeInput("flags", [name |-> name, home_org |-> org,
                                         context_list |-> ctx])
       \/ \E odd \in OddLines :
            probe = ProbeInput("find_all_context", [lines |-> <<GoodLine(1), odd, GoodLine(3)>>])

PureNext ==
    \/ ProbeRunSearch
    \/ ProbeRunRipgrep
    \/ ProbeFindAllContext
    \/ ProbeFlags

PureSpec == PureInit /\ [][PureNext]_vars

(***************************************************************************)
(* Properties.                                                             *)
(***************************************************************************)
RunEnded == pc = "exit" /\ potential_files # <<>>

Last(q) == q[Len(q)]

IsFailedRecord(r) == "classification" \in DOMAIN r /\ r.classification = "Analysis Failed"

\* the candidate being processed, as read from the input
Current == Candidates[CandIndex]

InCall == pc \in {"post", "handle", "backoff", "ret", "pace"}

\* a 200 response whose message content is a JSON object
GoodResponse(r) == r.kind = "http" /\ r.status = 200 /\ r.body.form = "object"

\* a 200 response whose message content is no JSON at all, or JSON that is no
\* object
Unparseable(r) == r.kind = "http" /\ r.status = 200 /\ r.body.form \in {"invalid", "array"}

\* C1: when the run has ended after a passed setup, every candidate read from
\* the .potential files has exactly one record in results, whatever the remote
\* service answered for it.
C1_OneRecordPerCandidate ==
    RunEnded =>
        \A i \in DOMAIN Candidates : Cardinality({k \in DOMAIN owner : owner[k] = i}) = 1

\* C2: when the run has ended, every candidate that comes after a candidate
\* recorded as Failed has a record too: no later candidate is lost and the
\* run is not cut short.
C2_BatchResilience ==
    RunEnded =>
        \A k \in DOMAIN results :
            IsFailedRecord(results[k]) =>
                \A j \in (owner[k] + 1)..Len(Candidates) : \E m \in DOMAIN owner : owner[m] = j

\* the Triager.py run has ended after generate_report
TriagerEnded == pc = "t_exit" /\ exit_code = 0

\* the sections of the Triager.py report follow the order of the candidates:
\* they can be matched to candidates of increasing position
EntriesFollowPackages ==
    \E f \in [DOMAIN entries -> DOMAIN packages] :
        /\ \A i, j \in DOMAIN entries : i < j => f[i] < f[j]
        /\ \A i \in DOMAIN entries :
             /\ entries[i].package_name = packages[f[i]].name
             /\ entries[i].package_type = packages[f[i]].type

\* C3: the records of the final report are the input candidate sequence.
\* For LLM_Triager.py: the CSV has as many rows as there are candidates and
\* the i-th row was recorded for the i-th candidate.  For Triager.py: the
\* sections of the report written by generate_report come in the order of the
\* candidates of process_packages.
C3_ReportMirrorsInput ==
    /\ (RunEnded /\ report_written) =>
          /\ Len(report.rows) = Len(Candidates)
          /\ \A i \in DOMAIN report.rows : owner[i] = i
    /\ (TriagerEnded /\ entries # <<>>) => EntriesFollowPackages

\* C4: once an attempt has come back with HTTP 200 and a JSON object, the call
\* returns a completed analysis, the number of requests issued is the number
\* of that attempt (all earlier attempts having failed transiently), no
\* request follows it, and the analysis is what gets recorded.
C4_RetrySuccess ==
    (InCall /\ pc # "handle" /\ GoodResponse(response)) =>
        /\ pc \in {"ret", "pace"}
        /\ Truthy(analysis)
        /\ reqs = attempt + 1
        /\ Len(hist) = reqs
        /\ \A i \in 1..(reqs - 1) : hist[i] = "retry"
        /\ pc = "pace" => (Last(results) = analysis.val /\ Last(owner) = CandIndex)

C4_Witness ==
    /\ pc = "pace"
    /\ GoodResponse(response)
    /\ reqs = 3
    /\ hist = <<"retry", "retry", "return_analysis">>

\* C5: when every attempt of a call failed transiently and the call has
\* returned, exactly K = 3 requests were issued, and the record appended is
\* the Failed record with the candidate's own name and ecosystem, the failure
\* label, the fixed justification and "N/A" as evidence.
C5_RetryExhaustion ==
    (pc \in {"ret", "pace"} /\ hist # <<>> /\ \A i \in DOMAIN hist : hist[i] = "retry") =>
        /\ reqs = 3
        /\ Len(hist) = 3
        /\ analysis = None
        /\ pc = "pace" =>
            /\ Last(owner) = CandIndex
            /\ Last(results) =
                 [package_name |-> Current.name, package_type |-> Current.type,
                  classification |-> "Analysis Failed",
                  justification |-> "API call failed after retries.",
                  highest_risk_context |-> "N/A"]

C5_Witness ==
    /\ pc = "pace"
    /\ hist = <<"retry", "retry", "retry">>
    /\ CandIndex = 2
    /\ IsFailedRecord(Last(results))

\* C6: after a response with a status in 400..499 the call has returned
\* nothing, without a further request and without a backoff sleep after it,
\* and the candidate is recorded as Failed; a response with any other status
\* but 200 leads to the backoff.
C6_ClientErrorNotRetried ==
    (InCall /\ pc # "handle" /\ response.kind = "http") =>
        /\ response.status \in 400..499 =>
            /\ pc \in {"ret", "pace"}
            /\ analysis = None
            /\ reqs = Len(hist)
            /\ Len(waits) = reqs - 1
            /\ pc = "pace" =>
                (IsFailedRecord(Last(results)) /\ Last(owner) = CandIndex)
        /\ response.status \notin ({200} \cup 400..499) => pc = "backoff"

C6_Witness ==
    /\ pc = "pace"
    /\ response.kind = "http"
    /\ response.status = 400
    /\ hist = <<"retry", "return_none">>
    /\ waits = <<1>>

\* C7: a 200 response whose content cannot be parsed as a JSON object is
\* handled as a transient failure of the attempt: the call goes on to the
\* backoff and no error leaves it.
C7_UnparseableIsTransient ==
    (pc # "handle" /\ Unparseable(response)) => pc = "backoff"

\* C8: every record that is not the Failed record holds the required fields:
\* the classification label, the justification and the highest-risk evidence.
C8_CompletedHasRequiredFields ==
    \A k \in DOMAIN results :
        \/ IsFailedRecord(results[k])
        \/ {"classification", "justification", "highest_risk_context"}
              \subseteq DOMAIN results[k]

\* C9: the backoff delays of a call are 1, 2, 4: the first is the base 1, each
\* further one is double the one before, one delay is spent per failed
\* transient attempt, and every candidate starts with no delay spent.
C9_BackoffSchedule ==
    /\ \A n \in DOMAIN waits : waits[n] = (IF n = 1 THEN 1 ELSE 2 * waits[n - 1])
    /\ InCall =>
         Len(waits) = Cardinality({i \in DOMAIN hist : hist[i] = "retry"})
                      - (IF pc = "backoff" THEN 1 ELSE 0)
    /\ (pc = "post" /\ attempt = 0) => waits = <<>>

C9_Witness ==
    /\ waits = <<1, 2, 4>>
    /\ CandIndex = 2

\* C10: no evidence snippet comes from the run's report file or from a
\* candidate list, under either search backend.
C10_SearchExcludesBookkeeping ==
    \A k \in DOMAIN context_snippets :
        /\ context_snippets[k].file # STR_report_csv
        /\ ~HasSuffix(context_snippets[k].file, STR_potential)

\* position of the pattern among the tokens of the search command
PatternPos(fn, use_ripgrep) ==
    IF fn = "run_ripgrep" THEN 8 ELSE IF use_ripgrep THEN 9 ELSE 3

\* the tokens executed are those executed for a plain name, but for the
\* pattern, which is the name itself
SameButPattern(out, ref, k, name) ==
    /\ Len(out) = Len(ref)
    /\ \A i \in DOMAIN out : i # k => out[i] = ref[i]
    /\ k \in DOMAIN out /\ out[k] = Word(name)

\* C11: whatever the candidate name (a double quote, '$', a backquote, ';'
\* or '|' in it), the command executed for it has the program and the
\* arguments of the command executed for a plain name, except the pattern
\* argument, which is exactly the name.  Stated for run_search of
\* LLM_Triager.py (both backends) and for run_ripgrep of Triager.py.
C11_NoCommandInjection ==
    /\ Applied("run_search") =>
          SameButPattern(probe.out,
                         ShellExecutes(command(PlainName, source_dir, TRUE, TRUE, TRUE,
                                               probe.arg.use_ripgrep)),
                         PatternPos("run_search", probe.arg.use_ripgrep),
                         probe.arg.pattern)
    /\ Applied("run_ripgrep") =>
          SameButPattern(probe.out,
                         ExecExecutes(ripgrep_cmd(PlainName, <<>>, 100, source_dir)),
                         PatternPos("run_ripgrep", TRUE),
                         probe.arg.pattern)

\* C12: when the search of a candidate timed out or failed to execute, the
\* evidence list is empty, nothing is raised, the candidate goes on to
\* classification and its record is appended: the iteration is never left
\* through the handler of errors.
C12_SearchFailureAbsorbed ==
    search_failed =>
        /\ context_snippets = <<>>
        /\ pc \in {"post", "handle", "backoff", "ret", "pace"}
        /\ pc = "pace" => (owner # <<>> /\ Last(owner) = CandIndex)

\* the lines find_all_context looks at, and those among them it parses
LinesSeen == Take(Split(Strip(Strip(JoinLines(probe.arg.lines))), "\n"), MaxContextLines)

IsParsed(line) == Strip(line) # <<>> /\ ParseLine(line).ok

LinesParsed == SelectSeq(LinesSeen, IsParsed)

\* the snippet rejoined as file:line:content, the path taken below the
\* searched directory again and a truncation marker left out
Rejoined(c) ==
    OutputLine(PathJoin(source_dir, c.file), c.line,
               IF Len(c.content) > MaxContentLen
               THEN SubSeq(c.content, 1, MaxContentLen) ELSE c.content)

\* C13: every parsed line is given back exactly by its snippet rejoined as
\* file:line:content, leading and trailing whitespace of the content
\* included (for a truncated content: the line begins with the rejoined
\* text); a line without the shape is skipped and the others are parsed.
C13_ParseRoundTrip ==
    Applied("find_all_context") =>
        /\ Len(probe.out) = Len(LinesParsed)
        /\ \A k \in DOMAIN probe.out :
             IF Len(probe.out[k].content) > MaxContentLen
             THEN HasPrefix(LinesParsed[k], Rejoined(probe.out[k]))
             ELSE LinesParsed[k] = Rejoined(probe.out[k])

\* the content of a parsed line, trimmed
TrimmedContent(line) == Strip(ParseLine(line).content)

\* C15: a snippet whose trimmed content is longer than 300 characters holds
\* exactly its first 300 characters followed by "..."; a content of at most
\* 300 characters is stored unchanged, without marker; and no parsed line is
\* dropped for its length.
C15_Truncation ==
    Applied("find_all_context") =>
        /\ Len(probe.out) = Len(LinesParsed)
        /\ \A k \in DOMAIN probe.out :
             LET c == TrimmedContent(LinesParsed[k])
             IN  IF Len(c) > 300
                 THEN probe.out[k].content = SubSeq(c, 1, 300) \o <<".", ".", ".">>
                 ELSE probe.out[k].content = c

\* a content of 301 characters has been cut to 300 and the marker
C15_Witness ==
    /\ Applied("find_all_context")
    /\ probe.out # <<>>
    /\ Len(TrimmedContent(LinesParsed[1])) = 301
    /\ Len(probe.out[1].content) = 303

\* the lines of the whole output that have the shape, and their snippets
AllLines == Split(Strip(Strip(JoinLines(probe.arg.lines))), "\n")

WellFormed == SelectSeq(AllLines, IsParsed)

\* C16: find_all_context returns at most 20 snippets, those of the
\* earliest well-formed match lines of the output in output order, and
\* exactly 20 whenever the output holds at least 20 well-formed lines.
C16_EvidenceCap ==
    Applied("find_all_context") =>
        /\ Len(probe.out) <= 20
        /\ \A k \in DOMAIN probe.out :
             /\ k <= Len(WellFormed)
             /\ probe.out[k].line = ParseInt(ParseLine(WellFormed[k]).num)
             /\ probe.out[k].content = Truncate(TrimmedContent(WellFormed[k]))
        /\ Len(WellFormed) >= 20 => Len(probe.out) = 20

\* C14: in the evidence submitted with a request no trimmed content occurs
\* twice: two matches whose contents are equal after stripping never both
\* reach the request.
C14_EvidenceDeduplicated ==
    \A i, j \in DOMAIN request.context_snippets :
        i < j => Strip(request.context_snippets[i].content)
                 # Strip(request.context_snippets[j].content)

\* the name is scoped under the organization: @<org>/<rest>
ScopedUnder(name, org) == HasPrefix(Lower(name), <<"@">> \o Lower(org) \o <<"/">>)

\* some evidence line is a dependency declaration of the name
DeclaredAsDependency(name, context_list) ==
    \E k \in DOMAIN context_list : context_list[k].content = DependencyLine(name)

\* C19: for a candidate @<org>/<rest> of the home organization the flags
\* derived include the organization-branded flag, and for evidence that is
\* a dependency declaration of the candidate they include the import-usage
\* flag.
C19_SignalDerivation ==
    Applied("flags") =>
        /\ ScopedUnder(probe.arg.name, probe.arg.home_org) => HasFlag(probe.out, "organization_branded_name")
        /\ DeclaredAsDependency(probe.arg.name, probe.arg.context_list) =>
              HasFlag(probe.out, "appears_to_be_imported")

\* the flags the heuristics derive for the current candidate
CurrentFlags == Flags(package_name, target_org, context_snippets)

DecisionFields == {"classification", "justification", "highest_risk_context"}

\* C17: the decision recorded for a candidate is the one of the response,
\* field by field, whatever flags the heuristics derive for the candidate;
\* no record is appended before a request was issued, and the failure
\* record stands only for a call that returned nothing.
C17_SignalsAdvisory ==
    /\ (InCall /\ pc = "pace" /\ Last(hist) = "return_analysis") =>
          \A f \in DecisionFields :
             IF f \in DOMAIN response.body.obj
             THEN f \in DOMAIN Last(results) /\ Last(results)[f] = response.body.obj[f]
             ELSE f \notin DOMAIN Last(results)
    /\ pc \in {"ret", "pace"} => (reqs >= 1 /\ hist # <<>>)
    /\ (pc = "pace" /\ IsFailedRecord(Last(results))) => Last(hist) \in {"return_none", "retry"}

\* a candidate without any evidence, flagged so, recorded as the service decided
C17_Witness ==
    /\ pc = "pace"
    /\ Last(hist) = "return_analysis"
    /\ HasFlag(CurrentFlags, "no_source_context_found")
    /\ HasFlag(CurrentFlags, "scoped_or_namespaced_package")
    /\ "classification" \in DOMAIN Last(results)
    /\ Last(results).classification = "Potential Vulnerability"

\* C18: the request sent for a candidate holds the flags derived for it.
C18_FlagsInRequest ==
    pc = "handle" =>
        /\ "flags" \in DOMAIN request
        /\ request.flags = CurrentFlags

\* C20: when the report could not be written, the summary shown is that of
\* the records accumulated in memory during the run.
C20_SummaryFromMemory ==
    (RunEnded /\ results # <<>> /\ ~report_written) => summary = Summary(Rows(results))


\* C21: when a run that processed at least one candidate has ended, its exit
\* status is 0 exactly when it wrote its report without error; a failed
\* write of the report ends the run with another status.  Stated for
\* LLM_Triager.main and for Triager.py's main.
C21_ExitReflectsPersistence ==
    /\ (pc = "exit" /\ results # <<>>) => (exit_code = 0 <=> report_written)
    /\ (pc = "t_exit" /\ counts.success + counts.fail >= 1) =>
          (exit_code = 0 <=> report_written)


\* no file of the tree lies under DEP
DirMissing == \A k \in DOMAIN tree : ~IsUnder(tree[k].path, PathJoin(source_dir, STR_DEP))

\* DEP exists and holds no candidate list
NoCandidateFile == ~DirMissing /\ ListPotential(tree, PathJoin(source_dir, STR_DEP)) = <<>>

\* no search was run and no request issued for any candidate
NothingIssued ==
    /\ results = <<>> /\ owner = <<>>
    /\ reqs = 0 /\ hist = <<>> /\ request = NoRequest
    /\ context_snippets = <<>> /\ ~search_failed
    /\ packages = <<>> /\ context_files = {} /\ analysis_files = {}
    /\ counts.success + counts.fail = 0

\* C22: with the credential missing or the DEP directory missing, neither
\* main ever stands in its candidate loop, and the run ends with status 1
\* having issued nothing; with a DEP directory that holds no candidate list
\* nothing is issued either, and LLM_Triager.main ends with status 0, as does
\* Triager.py's main once it has written its (empty) report.
C22_FatalSetupStopsRun ==
    /\ (~api_key_set \/ DirMissing) =>
          /\ pc \in {"start", "exit", "t_start", "t_load", "t_exit"}
          /\ NothingIssued
          /\ pc \in {"exit", "t_exit"} => exit_code = 1
    /\ NoCandidateFile =>
          /\ pc \in {"start", "exit", "t_start", "t_load", "t_report", "t_exit"}
          /\ NothingIssued
          /\ (pc = "exit" /\ api_key_set) => exit_code = 0
          /\ (pc = "t_exit" /\ report_written) => exit_code = 0

\* LLM_Triager.main has stopped on a missing DEP directory, the credential set
C22_Witness ==
    /\ pc = "exit"
    /\ api_key_set
    /\ DirMissing
    /\ exit_code = 1


\* the columns of the report, in order
ReportColumns ==
    <<"package_name", "package_type", "classification", "confidence",
      "justification", "highest_risk_context">>

\* C23: every row of the report written by LLM_Triager.main has the columns
\* package name, ecosystem, classification, confidence, justification and
\* highest-risk evidence, in this order, whatever further fields the response
\* held, and the row of a completed candidate holds the confidence that the
\* service returned.
C23_FixedReportSchema ==
    (pc = "exit" /\ report_written) =>
        /\ fieldnames = ReportColumns
        /\ \A i \in DOMAIN report.rows :
             /\ DOMAIN report.rows[i] = {ReportColumns[k] : k \in DOMAIN ReportColumns}
             /\ "confidence" \in DOMAIN results[i] =>
                   report.rows[i].confidence = results[i].confidence


\* C24: when the first request of a candidate is about to be issued and a
\* request was issued for an earlier candidate, exactly one pacing wait has
\* been spent since that earlier request, of the fixed duration (1 second in
\* LLM_Triager.main, 2 seconds in process_packages), whatever came back for
\* the earlier candidate and whether or not the two candidates are of the
\* same input file.
C24_Pacing ==
    /\ (pc = "post" /\ attempt = 0 /\ pacing.requested) => pacing.waits = <<1>>
    /\ (pc = "t_analyze" /\ pacing.requested) => pacing.waits = <<2>>


\* the set of the elements of a sequence
Range(q) == {q[k] : k \in DOMAIN q}

\* the matches of the files that ripgrep's two globs exclude
RemovedByGlobs(files, pattern, search_dir) ==
    Range(GrepOutput(SelectSeq(files, LAMBDA f : RgGlobExcluded(RelPath(f.path, search_dir))),
                     pattern, search_dir, TRUE))

\* the matches that the grep -v filter drops
RemovedByFilter(files, pattern, search_dir) ==
    {l \in Range(GrepOutput(files, pattern, search_dir, TRUE)) : ~GrepVKeeps(l)}

\* C25: for the candidate searched and the tree of the run, run_search yields
\* the same match lines (file, line number, content) with ripgrep as with
\* grep, and the globs of the one remove exactly the matches that the filter
\* of the other removes.
C25_BackendEquivalence ==
    pc = "search" =>
        /\ Range(BackendLines(tree, package_name, source_dir, TRUE, TRUE))
              = Range(BackendLines(tree, package_name, source_dir, TRUE, FALSE))
        /\ RemovedByGlobs(tree, package_name, source_dir)
              = RemovedByFilter(tree, package_name, source_dir)


\* C26: when Triager.py has ended after writing its report, on an output
\* directory that was empty at the start, the number of entries counted by
\* generate_report is the number of candidates handled by process_packages,
\* success_count + fail_count.
C26_NoCandidateDropped ==
    (pc = "t_exit" /\ report_written) =>
        Len(entries) = counts.success + counts.fail


\* C27: every record kept holds the name and the ecosystem of the candidate
\* it was appended for, as read from the input; in Triager.py every analysis
\* saved holds the name and the ecosystem of a candidate it was saved for.
C27_RecordIdentity ==
    /\ \A k \in DOMAIN results :
          /\ {"package_name", "package_type"} \subseteq DOMAIN results[k]
          /\ results[k].package_name = Candidates[owner[k]].name
          /\ results[k].package_type = Candidates[owner[k]].type
    /\ \A f \in analysis_files :
          \E i \in DOMAIN packages :
              /\ f.name = AnalysisFileName(packages[i])
              /\ {"package_name", "package_type"} \subseteq DOMAIN f.data
              /\ f.data.package_name = packages[i].name
              /\ f.data.package_type = packages[i].type


\* C28: the three counts printed by print_summary add up to the total it
\* prints, whatever labels the rows hold, and the four counts of
\* generate_report add up to its total.
C28_CountsPartition ==
    /\ summary # NoSummary =>
          summary.potential_vulns + summary.false_positives + summary.failed_analysis
             = summary.total
    /\ pc \in {"t_report", "t_exit"} =>
          LET c == ReportCounts(entries)
          IN  c.vulnerable_count + c.false_positive_count + c.uncertain_count
                 + c.error_count = c.analyzed_count


\* the snippets that go into the request: context_list[:20]
SentSnippets == Take(probe.arg.context_list, MaxContextLines)

\* the external-source vocabulary
ExternalSourceWords ==
    { <<"w","o","r","k","s","p","a","c","e">>, <<"g","i","t","+","h","t","t","p","s">>, <<"g","i","t","h","u","b">>,
      <<"f","i","l","e",":">>, <<"l","o","c","a","l",":">>, <<"r","e","l","a","t","i","v","e">> }

\* the import vocabulary
ImportWords == { <<"i","m","p","o","r","t">>, <<"r","e","q","u","i","r","e">> }

\* C29: the flags derived by the first definition of analyze_with_llm agree
\* with the snippets it sends: a word of the external-source vocabulary in a
\* sent snippet sets the explicit-private-source flag, a word of the import
\* vocabulary in one sets the import flag, and the no-evidence flag is set
\* exactly when no snippet is sent.
C29_SignalsAgreeWithEvidence ==
    Applied("flags") =>
        /\ (\E k \in DOMAIN SentSnippets : \E w \in ExternalSourceWords :
               Contains(Lower(SentSnippets[k].content), w))
             => HasFlag(probe.out, "explicit_private_source_detected")
        /\ (\E k \in DOMAIN SentSnippets : \E w \in ImportWords :
               Contains(SentSnippets[k].content, w))
             => HasFlag(probe.out, "appears_to_be_imported")
        /\ HasFlag(probe.out, "no_source_context_found") <=> SentSnippets = <<>>


\* C30: in a call of analyze_with_llm the backoff sleeps spent are fewer than
\* the requests issued, and once the call has returned every sleep was
\* followed by a request: a call of K requests has slept at most K - 1 times.
C30_BackoffOnlyBeforeRetry ==
    /\ (InCall /\ pc # "post" /\ reqs >= 1) => Len(waits) <= reqs - 1
    /\ pc \in {"ret", "pace"} => Len(waits) = Cardinality({i \in DOMAIN hist : hist[i] = "retry"
                                                                      /\ i < Len(hist)})


\* C31: an output line path:7:lp whose path holds a colon, printed between
\* two ordinary lines, is parsed into the snippet of that file, line 7 and
\* content lp, and into no other snippet.
C31_ColonInPath ==
    \A p \in ColonPaths :
        (Applied("find_all_context")
         /\ probe.arg.lines = <<GoodLine(1), ColonLine(p), GoodLine(3)>>) =>
            /\ Len(probe.out) = 3
            /\ probe.out[2] = [file |-> RelPath(p, source_dir), line |-> 7,
                               content |-> <<"l","p">>]
====
